---------------------------- MODULE Spec2Model ----------------------------
(***************************************************************************)
(* amd_gpu_top (src/source/main.cpp): the Device Locator (getPCIDevice and *)
(* the region mapping at the head of main) and the Sampler/Renderer loop   *)
(* of main, with printCounter and the comparator of std::stable_sort.      *)
(*                                                                         *)
(* Representation of machine values.                                       *)
(*  - A 32-bit register word is the set of its set bit positions, a subset *)
(*    of 0..31: bitwise AND is intersection, zero is {}.  (TLC's integers  *)
(*    are 32-bit signed, so 1u << 31 and 0xFFFFFFFF are not TLC integers.) *)
(*  - A 64-bit time value in microseconds is the record [hi, lo] standing  *)
(*    for hi * 2^32 + lo, with |lo| < 2^30; every time value of the        *)
(*    program lies that close to a multiple of 2^32 (TimeOK checks it), so *)
(*    the representation is unique and the arithmetic below is exact.      *)
(***************************************************************************)
EXTENDS Integers, Sequences, FiniteSets, TLC

VARIABLES
    pc,              \* position of the single thread in main / getPCIDevice
    exitStatus,      \* argument of std::exit, -1 while the process runs
    stderr,          \* diagnostics written to std::cerr
    steps,           \* Device Locator steps that succeeded, in order
    counters,        \* the global std::vector<Counter> counters
    regs,            \* the GPU's registers, by word index (environment)
    hwChanged,       \* the GPU changed state since the last sample tick
    counterIndices,  \* main's counterIndices
    counts,          \* main's counts (the Sample Accumulator)
    i,               \* outer loop variable of the tick loop
    elapsed,         \* steady_clock::now() - startTime, microseconds
    lastElapsed,     \* elapsed.count() of the last tick (line 160)
    lastRequest,     \* argument received by usleep at the last tick
    lateCount,       \* sleeps of this window whose argument wrapped
    reads,           \* the readReg calls of the last tick: <<index, value>>
    everRead,        \* some register was read
    busyTicks,       \* per counter, ticks of this window that read as busy
    prevOrder,       \* counterIndices as the last sort received it
    screen,          \* lines written after the clear of this loop iteration
    wroteStdout,     \* something was written to std::cout
    barName,         \* printCounter's argument name (pure-function check)
    barPct,          \* printCounter's argument percentage
    barOut           \* what printCounter wrote

vars == <<pc, exitStatus, stderr, steps, counters, regs, hwChanged,
          counterIndices, counts, i, elapsed, lastElapsed, lastRequest,
          lateCount, reads, everRead, busyTicks, prevOrder, screen, wroteStdout,
          barName, barPct, barOut>>

-----------------------------------------------------------------------------
(* Program constants *)

sampleCount == 100

WindowMicros == 1000000

interval == WindowMicros \div sampleCount

MmioBytes == 262144

MmioWords == MmioBytes \div 4

BarWidth == 32

AmdVendorId == 4098

(* Bounds of the model *)

\* Sleeps per window whose argument wraps (ticks that are late).
MaxLate == 1

\* Largest percentage handed to printCounter in the pure-function check.
MaxPercentage == 100

\* Raw words the GPU presents in all registers alike: 0, 1<<31, 0xFFFFFFFF.
RawValues == { {}, {31}, 0..31 }

\* Ticks of a window before which the GPU may change what it presents.
HwChangeTicks == {50, 87}

\* Microseconds the ten register reads of one tick take.
Overheads == {150, 10000, 10250}

\* vendor_id values a probed device reports.
VendorIds == {AmdVendorId, 4318}


-----------------------------------------------------------------------------
(* Machine arithmetic *)

\* The 64-bit value hi * 2^32 + lo.
Wide(hi, lo) == [hi |-> hi, lo |-> lo]

WAdd(a, b) == [hi |-> a.hi + b.hi, lo |-> a.lo + b.lo]

WSub(a, b) == [hi |-> a.hi - b.hi, lo |-> a.lo - b.lo]

\* |lo| < 2^30: the representation is unique and WAdd/WSub are exact.
WideOK(a) == a.lo > -1073741824 /\ a.lo < 1073741824

\* A mutant of ToUseconds: a negative duration is clamped to zero.
ToUsecondsClamped(d) ==
    IF d.hi < 0 \/ (d.hi = 0 /\ d.lo < 0) THEN Wide(0, 0)
    ELSE IF d.lo >= 0 THEN Wide(0, d.lo) ELSE Wide(1, d.lo)

\* The implicit conversion of the signed 64-bit argument to usleep's
\* useconds_t (unsigned 32-bit): the value modulo 2^32.
ToUseconds(d) == IF d.lo >= 0 THEN Wide(0, d.lo) ELSE Wide(1, d.lo)

\* value & mask on 32-bit words.
BitAnd(value, mask) == value \cap mask

-----------------------------------------------------------------------------
(* The counter table *)

Counter(name, index, mask, isIdle) ==
    [name |-> name, index |-> index, mask |-> mask, isIdle |-> isIdle]

\* A mutant of CounterTable: SDMA1's index has a digit too many (0x3600d).
CounterTableFarIndex ==
    [c \in 0..9 |->
        << Counter("CL",    8836,  {31}, FALSE),
           Counter("SU",    8852,  {31}, FALSE),
           Counter("GDS",   9665,  {0},  FALSE),
           Counter("IA",    8759,  {0},  FALSE),
           Counter("WD",    8767,  {0},  FALSE),
           Counter("VGT",   8764,  {0},  FALSE),
           Counter("TD",    9510,  {31}, FALSE),
           Counter("CP",    8608,  {31}, FALSE),
           Counter("SDMA0", 13325, {0},  TRUE),
           Counter("SDMA1", 221197, {0}, TRUE) >>[c + 1]]

\* The initializer of the global counters, by 0-based position.
CounterTable ==
    [c \in 0..9 |->
        << Counter("CL",    8836,  {31}, FALSE),
           Counter("SU",    8852,  {31}, FALSE),
           Counter("GDS",   9665,  {0},  FALSE),
           Counter("IA",    8759,  {0},  FALSE),
           Counter("WD",    8767,  {0},  FALSE),
           Counter("VGT",   8764,  {0},  FALSE),
           Counter("TD",    9510,  {31}, FALSE),
           Counter("CP",    8608,  {31}, FALSE),
           Counter("SDMA0", 13325, {0},  TRUE),
           Counter("SDMA1", 13837, {0},  TRUE) >>[c + 1]]

CounterIds == DOMAIN CounterTable

\* Word indices at which the GPU model keeps a register.
RegIndices == {CounterTable[c].index : c \in CounterIds}

\* The ramp of bar glyphs; bars[k] of the source is BarsAt(k).
bars == <<" ", "1/8", "2/8", "3/8", "4/8", "5/8", "6/8", "7/8", "8/8">>

BarsAt(k) == IF k \in 0..8 THEN bars[k + 1] ELSE "out-of-range"

-----------------------------------------------------------------------------
(* Pure functions *)

\* readReg: the word at index of the mapped window.  A read outside the
\* mapped window is undefined behaviour: any value (garbage).
readReg(mem, index, garbage) ==
    IF index < MmioWords /\ index \in DOMAIN mem THEN mem[index] ELSE garbage

\* A mutant of CountsAsBusy: the two branches of the polarity test swapped.
CountsAsBusySwapped(ctr, value) ==
    IF ctr.isIdle
    THEN BitAnd(value, ctr.mask) # {}
    ELSE ~(BitAnd(value, ctr.mask) # {})

\* The condition under which lines 150-156 execute ++counts[i].
CountsAsBusy(ctr, value) ==
    IF ctr.isIdle
    THEN ~(BitAnd(value, ctr.mask) # {})
    ELSE BitAnd(value, ctr.mask) # {}

\* counts[...] * 100 / sampleCount of line 170 (operands are non-negative).
Percentage(count) == (count * 100) \div sampleCount

\* A mutant of Comp: ascending.
CompAscending(cnt, a, b) == cnt[a] < cnt[b]

\* The comparator handed to std::stable_sort.
Comp(cnt, a, b) == cnt[a] > cnt[b]

\* A mutant of StableSort: std::sort, which may leave equivalent elements in
\* any order; here in the reverse of the order they came in.
UnstableSort(s, cnt) ==
    LET rank(p) ==
           1 + Cardinality({q \in 1..Len(s) :
                               \/ Comp(cnt, s[q], s[p])
                               \/ q > p /\ ~Comp(cnt, s[p], s[q])})
    IN  [r \in 1..Len(s) |-> s[CHOOSE p \in 1..Len(s) : rank(p) = r]]

\* std::stable_sort under a strict weak ordering: the element at position p
\* goes behind the elements that compare before it and behind the earlier
\* elements equivalent to it, and behind nothing else.
StableSort(s, cnt) ==
    LET rank(p) ==
           1 + Cardinality({q \in 1..Len(s) :
                               \/ Comp(cnt, s[q], s[p])
                               \/ q < p /\ ~Comp(cnt, s[p], s[q])})
    IN  [r \in 1..Len(s) |-> s[CHOOSE p \in 1..Len(s) : rank(p) = r]]

Repeat(n, g) == [j \in 1..n |-> g]

\* A mutant of BarCells: the padding loop starts one cell early.
BarCellsPadEarly(percentage) ==
    LET doubled == percentage * 2
        len     == 1 + (doubled \div 8)
    IN  Repeat(doubled \div 8, BarsAt(8))
        \o <<BarsAt(doubled % 8)>>
        \o Repeat(IF len - 1 < BarWidth THEN BarWidth - (len - 1) ELSE 0, " ")

\* The glyph cells printCounter writes after the two text fields.
BarCells(percentage) ==
    LET doubled == percentage * 2
        len     == 1 + (doubled \div 8)
    IN  Repeat(doubled \div 8, BarsAt(8))
        \o <<BarsAt(doubled % 8)>>
        \o Repeat(IF len < BarWidth THEN BarWidth - len ELSE 0, " ")

\* printCounter: the name field, the percentage field and the bar.
printCounter(name, percentage) ==
    [name |-> name, percentage |-> percentage, bar |-> BarCells(percentage)]

\* A mutant of TickLoopContinues: the bound is inclusive.
TickLoopContinuesInclusive(n) == n <= sampleCount

\* The condition of the tick loop, i < sampleCount.
TickLoopContinues(n) == n < sampleCount

\* A mutant of SleepArg: every tick sleeps the nominal interval (no anchoring
\* at the window start, so read overhead accumulates).
SleepArgNominal(tick, el) == Wide(0, interval)

\* The argument expression of usleep: (i + 1) * interval - elapsed.count().
SleepArg(tick, el) == WSub(Wide(0, (tick + 1) * interval), el)


-----------------------------------------------------------------------------
(* Initial state *)

Zero == Wide(0, 0)

ZeroCounts == [c \in CounterIds |-> 0]

NoReads == [c \in CounterIds |-> <<0, {}>>]

\* The same raw word in every sampled register.
Presenting(v) == [r \in RegIndices |-> v]

\* Every register zero except SDMA0's, which reads 1 (its idle bit set).
Sdma0Idle == [r \in RegIndices |-> IF r = 13325 THEN {0} ELSE {}]

\* What the GPU presents to the sampler.
HwPatterns == {Presenting(v) : v \in RawValues} \cup {Sdma0Idle}

Diagnostics ==
    [pci_system_init      |-> "could not initialize PCI",
     pci_device_next      |-> "could not find an AMD TONGA GPU",
     pci_device_probe     |-> "could not probe GPU",
     vendor_check         |-> "Graphics card is not identified",
     pci_device_map_range |-> "mmio mem map failed (try to run as root)"]

LocatorSteps ==
    <<"pci_system_init", "pci_device_next", "pci_device_probe", "vendor_check",
      "pci_device_map_range">>

LoopPcs == {"window_start", "tick", "render"}

ProgramInit ==
    /\ exitStatus = -1
    /\ stderr = <<>>
    /\ steps = <<>>
    /\ counters = CounterTable
    /\ hwChanged = FALSE
    /\ counterIndices = <<>>
    /\ counts = ZeroCounts
    /\ i = 0
    /\ elapsed = Zero
    /\ lastElapsed = Zero
    /\ lastRequest = Zero
    /\ lateCount = 0
    /\ reads = NoReads
    /\ everRead = FALSE
    /\ busyTicks = ZeroCounts
    /\ prevOrder = <<>>
    /\ screen = <<>>
    /\ wroteStdout = FALSE

Init ==
    /\ pc = "pci_system_init"
    /\ ProgramInit
    /\ regs \in HwPatterns
    /\ barName = ""
    /\ barPct = 0
    /\ barOut = <<>>

-----------------------------------------------------------------------------
(* Device Locator *)

loopVars == <<counters, regs, hwChanged, counterIndices, counts, i, elapsed,
              lastElapsed, lastRequest, lateCount, reads, everRead, busyTicks,
              prevOrder, screen, wroteStdout>>

barVars == <<barName, barPct, barOut>>

\* std::cerr << diagnostic; std::exit(1).
Fail(step) ==
    /\ stderr' = Append(stderr, Diagnostics[step])
    /\ exitStatus' = 1
    /\ pc' = "exited"
    /\ UNCHANGED steps

Pass(step, next) ==
    /\ steps' = Append(steps, step)
    /\ pc' = next
    /\ UNCHANGED <<stderr, exitStatus>>

\* A mutant of PciDeviceProbe: the error of pci_device_probe is not tested.
PciDeviceProbeUnchecked ==
    /\ pc = "pci_device_probe"
    /\ \E error \in {0, 1} :
          /\ pc' = "vendor_check"
          /\ steps' = IF error = 0 THEN Append(steps, "pci_device_probe") ELSE steps
          /\ UNCHANGED <<stderr, exitStatus>>
    /\ UNCHANGED loopVars
    /\ UNCHANGED barVars

PciSystemInit ==
    /\ pc = "pci_system_init"
    /\ \/ Pass("pci_system_init", "pci_device_next")
       \/ Fail("pci_system_init")
    /\ UNCHANGED loopVars
    /\ UNCHANGED barVars

PciDeviceNext ==
    /\ pc = "pci_device_next"
    /\ \/ Pass("pci_device_next", "pci_device_probe")
       \/ Fail("pci_device_next")
    /\ UNCHANGED loopVars
    /\ UNCHANGED barVars

PciDeviceProbe ==
    /\ pc = "pci_device_probe"
    /\ \/ Pass("pci_device_probe", "vendor_check")
       \/ Fail("pci_device_probe")
    /\ UNCHANGED loopVars
    /\ UNCHANGED barVars

VendorCheck ==
    /\ pc = "vendor_check"
    /\ \E vendor_id \in VendorIds :
          IF vendor_id # AmdVendorId
          THEN Fail("vendor_check")
          ELSE Pass("vendor_check", "pci_device_map_range")
    /\ UNCHANGED loopVars
    /\ UNCHANGED barVars

PciDeviceMapRange ==
    /\ pc = "pci_device_map_range"
    /\ \/ Pass("pci_device_map_range", "init_indices")
       \/ Fail("pci_device_map_range")
    /\ UNCHANGED loopVars
    /\ UNCHANGED barVars

\* counterIndices[i] = i for every position.
InitIndices ==
    /\ pc = "init_indices"
    /\ counterIndices' = [p \in 1..Cardinality(DOMAIN counters) |-> p - 1]
    /\ pc' = "window_start"
    /\ UNCHANGED <<exitStatus, stderr, steps, counters, regs, hwChanged, counts,
                   i, elapsed, lastElapsed, lastRequest, lateCount, reads,
                   everRead, busyTicks, prevOrder, screen, wroteStdout>>
    /\ UNCHANGED barVars


-----------------------------------------------------------------------------
(* Sampler/Renderer loop *)

locatorVars == <<exitStatus, stderr, steps>>

\* The claimed polarity rule, stated on the masked value (an observer: it
\* feeds busyTicks only).
ReadAsBusy(ctr, value) ==
    \/ ctr.isIdle = FALSE /\ value \cap ctr.mask # {}
    \/ ctr.isIdle = TRUE  /\ value \cap ctr.mask = {}

\* A mutant of WindowStart: counts is declared outside the for(;;) loop.
WindowStartKeepCounts ==
    /\ pc = "window_start"
    /\ elapsed' = Zero
    /\ i' = 0
    /\ pc' = "tick"
    /\ lateCount' = 0
    /\ busyTicks' = ZeroCounts
    /\ lastElapsed' = Zero
    /\ lastRequest' = Zero
    /\ reads' = NoReads
    /\ prevOrder' = <<>>
    /\ screen' = <<>>
    /\ UNCHANGED <<counters, regs, hwChanged, counterIndices, everRead,
                   wroteStdout, counts>>
    /\ UNCHANGED <<exitStatus, stderr, steps>>
    /\ UNCHANGED <<barName, barPct, barOut>>

\* Top of the for(;;) body: a fresh counts, startTime = now.
WindowStart ==
    /\ pc = "window_start"
    /\ counts' = [c \in DOMAIN counters |-> 0]
    /\ elapsed' = Zero
    /\ i' = 0
    /\ pc' = "tick"
    /\ lateCount' = 0
    /\ busyTicks' = ZeroCounts
    /\ lastElapsed' = Zero
    /\ lastRequest' = Zero
    /\ reads' = NoReads
    /\ prevOrder' = <<>>
    /\ screen' = <<>>
    /\ UNCHANGED <<counters, regs, hwChanged, counterIndices, everRead,
                   wroteStdout>>
    /\ UNCHANGED locatorVars
    /\ UNCHANGED barVars

\* The environment: the GPU's engines change state.
HwChange ==
    /\ pc = "tick"
    /\ i \in HwChangeTicks
    /\ ~hwChanged
    /\ regs' \in HwPatterns \ {regs}
    /\ hwChanged' = TRUE
    /\ UNCHANGED <<pc, counters, counterIndices, counts, i, elapsed,
                   lastElapsed, lastRequest, lateCount, reads, everRead,
                   busyTicks, prevOrder, screen, wroteStdout>>
    /\ UNCHANGED locatorVars
    /\ UNCHANGED barVars

\* One iteration of the tick loop: the ten reads, then the paced sleep.
\* overhead is the time the reads took; usleep returns after what it was
\* asked for.
Tick ==
    /\ pc = "tick"
    /\ \E overhead \in Overheads,
          garbage \in (IF \A c \in DOMAIN counters : counters[c].index < MmioWords
                       THEN {{}} ELSE RawValues) :
          LET value(c) == readReg(regs, counters[c].index, garbage)
              measured == WAdd(elapsed, Wide(0, overhead))
              request  == ToUseconds(SleepArg(i, measured))
          IN  /\ request.hi = 1 => lateCount < MaxLate
              /\ reads' = [c \in DOMAIN counts |-> <<counters[c].index, value(c)>>]
              /\ counts' = [c \in DOMAIN counts |->
                               IF CountsAsBusy(counters[c], value(c))
                               THEN counts[c] + 1 ELSE counts[c]]
              /\ busyTicks' = [c \in DOMAIN counts |->
                                  IF ReadAsBusy(counters[c], value(c))
                                  THEN busyTicks[c] + 1 ELSE busyTicks[c]]
              /\ lastElapsed' = measured
              /\ lastRequest' = request
              /\ elapsed' = WAdd(measured, request)
              /\ lateCount' = lateCount + request.hi
    /\ i' = i + 1
    /\ pc' = IF TickLoopContinues(i + 1) THEN "tick" ELSE "render"
    /\ everRead' = TRUE
    /\ hwChanged' = FALSE
    /\ UNCHANGED <<counters, regs, counterIndices, prevOrder, screen,
                   wroteStdout>>
    /\ UNCHANGED locatorVars
    /\ UNCHANGED barVars

\* After the tick loop: the sort, the clear, one printCounter line per counter.
Render ==
    /\ pc = "render"
    /\ LET sorted == StableSort(counterIndices, counts)
       IN  /\ prevOrder' = counterIndices
           /\ counterIndices' = sorted
           /\ screen' = [p \in 1..Cardinality(DOMAIN counters) |->
                            printCounter(counters[sorted[p]].name,
                                         Percentage(counts[sorted[p]]))]
    /\ wroteStdout' = TRUE
    /\ pc' = "window_start"
    /\ UNCHANGED <<counters, regs, hwChanged, counts, i, elapsed, lastElapsed,
                   lastRequest, lateCount, reads, everRead, busyTicks>>
    /\ UNCHANGED locatorVars
    /\ UNCHANGED barVars

ProgramStep ==
    \/ PciSystemInit
    \/ PciDeviceNext
    \/ PciDeviceProbe
    \/ VendorCheck
    \/ PciDeviceMapRange
    \/ InitIndices
    \/ WindowStart
    \/ Tick
    \/ Render

Next ==
    \/ ProgramStep
    \/ HwChange

Spec == Init /\ [][Next]_vars

\* The program alone, with a GPU that keeps presenting what it presented at
\* startup: every sleep returns and the thread keeps being scheduled.
FairSpec == Init /\ [][ProgramStep]_vars /\ WF_vars(ProgramStep)

-----------------------------------------------------------------------------
(* printCounter on its own, for every percentage and every name *)

InitBar ==
    /\ pc = "printCounter"
    /\ ProgramInit
    /\ regs = Presenting({})
    /\ barName \in {CounterTable[c].name : c \in CounterIds}
    /\ barPct \in 0..MaxPercentage
    /\ barOut = <<>>

PrintCounterCall ==
    /\ pc = "printCounter"
    /\ barOut' = printCounter(barName, barPct)
    /\ pc' = "printed"
    /\ UNCHANGED <<barName, barPct>>
    /\ UNCHANGED loopVars
    /\ UNCHANGED locatorVars

NextBar == PrintCounterCall

SpecBar == InitBar /\ [][NextBar]_vars


-----------------------------------------------------------------------------
(* Observers used by the properties *)

\* The state right after a render, before the next window starts.
JustRendered == pc = "window_start" /\ screen # <<>>

\* Ticks of the current window that are complete.
TicksDone == IF pc \in {"tick", "render"} \/ JustRendered THEN i ELSE 0

Pos(s, x) == CHOOSE p \in 1..Len(s) : s[p] = x

Before(s, a, b) == Pos(s, a) < Pos(s, b)

TableOrder == [p \in 1..Cardinality(CounterIds) |-> p - 1]

IsPermutation(s) ==
    /\ Len(s) = Cardinality(CounterIds)
    /\ {s[p] : p \in 1..Len(s)} = CounterIds

\* The first element of s whose key is largest.
FirstMax(s, key) ==
    s[CHOOSE p \in 1..Len(s) :
          /\ \A q \in 1..Len(s) : key[s[q]] <= key[s[p]]
          /\ \A q \in 1..(p - 1) : key[s[q]] < key[s[p]]]

Without(s, x) == SelectSeq(s, LAMBDA y : y # x)

\* s ordered by descending key, equal keys in the order s has them.
RECURSIVE ByDescending(_, _)
ByDescending(s, key) ==
    IF s = <<>> THEN <<>>
    ELSE <<FirstMax(s, key)>> \o ByDescending(Without(s, FirstMax(s, key)), key)

TimeOK == WideOK(elapsed) /\ WideOK(lastElapsed) /\ WideOK(lastRequest)

-----------------------------------------------------------------------------
(* Properties *)

\* C1: startup is all-or-nothing.  A failed Device Locator step leaves exactly
\* its one diagnostic on standard error and exit status 1, with no register
\* read and nothing on standard output; the loop (and any read or output) is
\* reached only with all five steps passed in order.
C1_StartupAllOrNothing ==
    /\ pc = "exited" <=> exitStatus = 1
    /\ exitStatus \in {-1, 1}
    /\ stderr # <<>> <=> exitStatus = 1
    /\ exitStatus = 1 =>
          /\ Len(stderr) = 1
          /\ Len(steps) < Len(LocatorSteps)
          /\ steps = SubSeq(LocatorSteps, 1, Len(steps))
          /\ stderr[1] = Diagnostics[LocatorSteps[Len(steps) + 1]]
          /\ ~everRead
          /\ ~wroteStdout
          /\ screen = <<>>
    /\ (pc \in LoopPcs \/ pc = "init_indices" \/ everRead \/ wroteStdout) =>
          /\ steps = LocatorSteps
          /\ exitStatus = -1
    /\ pc \notin LoopPcs /\ exitStatus = -1 /\ pc # "init_indices" =>
          /\ Len(steps) < Len(LocatorSteps)
          /\ steps = SubSeq(LocatorSteps, 1, Len(steps))
          /\ pc = LocatorSteps[Len(steps) + 1]

\* C1 witness: the fifth step (the mapping) failed after four passed.
C1_Witness ==
    /\ pc = "exited"
    /\ exitStatus = 1
    /\ Len(steps) = 4
    /\ stderr = <<"mmio mem map failed (try to run as root)">>


\* C2: polarity rule.  At every sample tick and for every counter, the
\* accumulator grows by one exactly when (isIdle is false and read & mask is
\* non-zero) or (isIdle is true and read & mask is zero), and is unchanged
\* otherwise; the value tested is the register's at the counter's index.  So
\* a read of 0xFFFFFFFF under mask 1<<31 increments an isIdle=false counter,
\* and a read with the masked bit set never increments an isIdle=true one.
C2_PolarityRule ==
    [][i' = i + 1 =>
          \A c \in CounterIds :
             LET ctr    == counters[c]
                 read   == reads'[c][2]
                 masked == read \cap ctr.mask
                 busy   == \/ ~ctr.isIdle /\ masked # {}
                           \/ ctr.isIdle /\ masked = {}
             IN  /\ reads'[c][1] = ctr.index
                 /\ read = regs[ctr.index]
                 /\ counts'[c] = counts[c] + (IF busy THEN 1 ELSE 0)
                 /\ (~ctr.isIdle /\ read = 0..31 /\ ctr.mask = {31})
                       => counts'[c] = counts[c] + 1
                 /\ (ctr.isIdle /\ masked # {}) => counts'[c] = counts[c]
    ]_vars

\* C2 witness: after the first tick of a window in which every register read
\* 0xFFFFFFFF, CL (mask 1<<31, isIdle false) was counted and SDMA0 (isIdle
\* true) was not.
C2_Witness ==
    /\ pc = "tick"
    /\ i = 1
    /\ reads[0] = <<8836, 0..31>>
    /\ counts[0] = 1
    /\ reads[8] = <<13325, 0..31>>
    /\ counts[8] = 0

\* C3: the value displayed for a counter is floor(k * 100 / N), k being the
\* number of the N = 100 ticks of that same window at which the counter read
\* as busy.  The accumulator equals the number of busy ticks of the current
\* window so far (zero at its start, at most the number of ticks done), so
\* 0 <= accumulator <= N and 0 <= percentage <= 100 always; k = 100 shows 100,
\* k = 0 shows 0, k = 37 shows 37.
C3_PercentageOfWindow ==
    /\ \A c \in CounterIds :
          /\ pc \in {"tick", "render"} \/ JustRendered => counts[c] = busyTicks[c]
          /\ 0 <= counts[c]
          /\ counts[c] <= TicksDone
          /\ counts[c] <= sampleCount
          /\ Percentage(counts[c]) \in 0..100
          /\ pc = "tick" /\ i = 0 => counts[c] = 0
    /\ JustRendered =>
          \A p \in 1..Len(screen) :
             LET k == busyTicks[counterIndices[p]]
             IN  /\ screen[p].percentage = (k * 100) \div sampleCount
                 /\ screen[p].name = CounterTable[counterIndices[p]].name
                 /\ k = 100 => screen[p].percentage = 100
                 /\ k = 0 => screen[p].percentage = 0
                 /\ k = 37 => screen[p].percentage = 37

\* C3 witness: a refresh, not the first, showing 100 for a counter busy at all
\* ticks of the window and 37 for one busy at exactly 37 of them.
C3_Witness ==
    /\ JustRendered
    /\ prevOrder # TableOrder
    /\ \E p, q \in 1..Len(screen) :
          /\ busyTicks[counterIndices[p]] = 37
          /\ screen[p].percentage = 37
          /\ busyTicks[counterIndices[q]] = 100
          /\ screen[q].percentage = 100

\* C4: stability across windows.  The sort leaves any two counters with equal
\* counts in the relative order of the previous window's display order, which
\* is the table order before the first sort and is not touched between
\* sorts; counts 50, 50 and less at indices 0, 1, 2 arriving in the order
\* 0, 1, 2 leave in the order 0, 1, 2.
C4_StableAcrossWindows ==
    [][/\ pc = "init_indices" => counterIndices' = TableOrder
       /\ pc \notin {"init_indices", "render"} => counterIndices' = counterIndices
       /\ pc = "render" =>
             /\ \A a, b \in CounterIds :
                   (a # b /\ counts[a] = counts[b]) =>
                      (Before(counterIndices', a, b) <=> Before(counterIndices, a, b))
             /\ ( /\ counts[0] = 50 /\ counts[1] = 50 /\ counts[2] < 50
                  /\ Before(counterIndices, 0, 1) /\ Before(counterIndices, 1, 2) )
                   => ( /\ Before(counterIndices', 0, 1)
                        /\ Before(counterIndices', 1, 2) )
    ]_vars

\* C4 witness: a refresh in which two tied counters are shown in an order that
\* is not the table's, the order the previous window had left them in, and
\* one in which CL and SU tie at 50 above GDS.
C4_Witness ==
    /\ JustRendered
    /\ \E a, b \in CounterIds :
          /\ a > b
          /\ counts[a] = counts[b]
          /\ Before(prevOrder, a, b)
          /\ Before(counterIndices, a, b)
    /\ counts[0] = 50 /\ counts[1] = 50 /\ counts[2] < 50
    /\ Before(counterIndices, 0, 1) /\ Before(counterIndices, 1, 2)

\* C5: the display order is always a permutation of the counter indices 0..9,
\* a refresh prints each counter on exactly one of its 10 lines, the
\* percentages printed are non-increasing from top to bottom, and the order
\* is the one a stable ordering by descending percentage gives.
C5_OrderIsSortedPermutation ==
    /\ pc \in LoopPcs => IsPermutation(counterIndices)
    /\ JustRendered =>
          /\ Len(screen) = 10
          /\ \A c \in CounterIds :
                Cardinality({p \in 1..Len(screen) :
                                screen[p].name = CounterTable[c].name}) = 1
          /\ \A p \in 1..(Len(screen) - 1) :
                screen[p].percentage >= screen[p + 1].percentage
          /\ counterIndices =
                ByDescending(prevOrder,
                             [c \in CounterIds |-> (counts[c] * 100) \div sampleCount])

\* C5 witness: a refresh showing three different percentages in an order that
\* differs from the one the window started with.
C5_Witness ==
    /\ JustRendered
    /\ counterIndices # prevOrder
    /\ prevOrder # TableOrder
    /\ Cardinality({screen[p].percentage : p \in 1..Len(screen)}) >= 3


\* C6: bar rendering.  For every percentage p, printCounter writes
\* floor(2p/8) full blocks, then the ramp glyph of index (2p) mod 8, an index
\* in 0..7, then 32 - (floor(2p/8) + 1) spaces: 32 cells in all.  p = 0 gives
\* the blank glyph and 31 spaces; p = 100 gives 25 full blocks, the blank
\* glyph and 6 spaces.
C6_BarRendering ==
    pc = "printed" =>
       LET full == (2 * barPct) \div 8
           idx  == (2 * barPct) % 8
           bar  == barOut.bar
       IN  /\ barOut.name = barName
           /\ barOut.percentage = barPct
           /\ idx \in 0..7
           /\ Len(bar) = 32
           /\ \A j \in 1..full : bar[j] = "8/8"
           /\ bar[full + 1] = bars[idx + 1]
           /\ \A j \in (full + 2)..Len(bar) : bar[j] = " "
           /\ Cardinality((full + 2)..Len(bar)) = 32 - (full + 1)
           /\ \A j \in 1..Len(bar) : bar[j] # "out-of-range"
           /\ barPct = 0 => bar = [j \in 1..32 |-> " "]
           /\ barPct = 100 =>
                 bar = [j \in 1..32 |-> IF j <= 25 THEN "8/8" ELSE " "]

\* C6 witness: printCounter has written the bar of 100 percent, 25 full
\* blocks followed by 7 blank cells.
C6_Witness ==
    /\ pc = "printed"
    /\ barPct = 100
    /\ Len(barOut.bar) = 32
    /\ barOut.bar[25] = "8/8"
    /\ barOut.bar[26] = " "

\* C7: drift-correcting pacing.  The argument of the sleep at tick i is
\* (i + 1) * interval less the time elapsed since the window's start, with
\* interval = 10,000; as long as every tick of the window was on time, the
\* tick loop stands at n * interval after n ticks whatever the reads took, and
\* the window ends 1,000,000 microseconds after its start.
C7_DriftCorrectingPacing ==
    /\ interval = 10000
    /\ (pc \in {"tick", "render"} /\ lateCount = 0) =>
          /\ elapsed = Wide(0, i * interval)
          /\ i > 0 =>
                /\ lastRequest = Wide(0, i * interval - lastElapsed.lo)
                /\ lastElapsed.hi = 0
                /\ lastElapsed.lo - (i - 1) * interval \in Overheads
    /\ (pc = "render" /\ lateCount = 0) => elapsed = Wide(0, 1000000)

\* C7 witness: a window without a late tick has ended at 1,000,000
\* microseconds although the reads of its last tick took 150.
C7_Witness ==
    /\ pc = "render"
    /\ lateCount = 0
    /\ elapsed = Wide(0, 1000000)
    /\ lastElapsed = Wide(0, 990150)
    /\ lastRequest = Wide(0, 9850)


\* C8: once startup succeeded the loop has no terminal state.  A window is
\* exactly N = 100 ticks, each reading every one of the 10 counters once,
\* followed by one render of 10 lines; no render happens before the 100th
\* tick of its window; a render is followed by the start of a new window; the
\* thread never leaves the loop and always has a next step; and, every sleep
\* returning, renders occur again and again.
C8_LoopSafety ==
    /\ pc = "tick" => i \in 0..(sampleCount - 1)
    /\ pc = "render" => i = sampleCount /\ screen = <<>>
    /\ screen # <<>> => pc = "window_start" /\ i = sampleCount /\ Len(screen) = 10
    /\ (pc \in {"tick", "render"} /\ i > 0) =>
          /\ DOMAIN reads = CounterIds
          /\ \A c \in CounterIds : reads[c][1] = CounterTable[c].index
    /\ pc \in LoopPcs => exitStatus = -1 /\ ENABLED ProgramStep

C8_LoopSteps ==
    /\ pc \in LoopPcs => pc' \in LoopPcs
    /\ (pc = "window_start" /\ pc' # pc) => (pc' = "tick" /\ i' = 0 /\ screen' = <<>>)
    /\ (pc = "tick" /\ i' # i) => i' = i + 1
    /\ (pc = "tick" /\ pc' # pc) => (pc' = "render" /\ i' = sampleCount)
    /\ pc = "render" => (pc' = "window_start" /\ Len(screen') = 10 /\ i' = i)
    /\ screen' # screen => (pc = "render" \/ (pc = "window_start" /\ screen' = <<>>))

C8_NoTerminalState ==
    /\ [](C8_LoopSafety)
    /\ [][C8_LoopSteps]_vars
    /\ (pc \in LoopPcs) ~> JustRendered

\* C8 witness: a second refresh is on the screen, after a full window of 100
\* ticks that started from the order the first refresh had left.
C8_Witness ==
    /\ JustRendered
    /\ i = sampleCount
    /\ Len(screen) = 10
    /\ prevOrder # TableOrder

\* The sleep of the last tick was asked for with the clock past the tick's
\* deadline (the deadline of the tick that just ended is i * interval).
LateTick ==
    /\ pc \in {"tick", "render"}
    /\ i > 0
    /\ \/ lastElapsed.hi > 0
       \/ lastElapsed.hi = 0 /\ lastElapsed.lo > i * interval

\* lastRequest is (deadline - lastElapsed) mod 2^32.
RequestIsWrappedDifference ==
    LET diff == i * interval - lastElapsed.lo
    IN  /\ lastRequest.lo = diff
        /\ diff >= 0 => lastRequest.hi = 0
        /\ diff < 0 => lastRequest.hi = 1

C10_Reads ==
    /\ counters = CounterTable
    /\ \A c \in CounterIds :
          /\ counters[c].index < 65536
          /\ counters[c].index <= 13837
          /\ counters[c].index * 4 + 4 <= MmioBytes
    /\ \E c \in CounterIds : counters[c].index = 13837
    /\ (pc \in {"tick", "render"} /\ i > 0) =>
          \A c \in CounterIds :
             /\ reads[c][1] = counters[c].index
             /\ reads[c][1] < 65536

C10_ReadOnlyInWindow ==
    /\ [](C10_Reads)
    /\ [][(pc' # pc \/ i' # i) => (regs' = regs /\ counters' = counters)]_vars

\* C10 witness: a tick has read SDMA1's register, word 0x360d.
C10_Witness ==
    /\ pc = "tick"
    /\ i = 1
    /\ everRead
    /\ reads[9][1] = 13837

=============================================================================
